---------------------------- MODULE Spec2Model ----------------------------
(***************************************************************************)
(* Performance Monitoring Dashboard (src/app/dashboard.py).                *)
(*                                                                         *)
(* The script is a straight-line Streamlit page: it loads a table, picks   *)
(* the timestamp column, cleans the rows, aggregates them per calendar     *)
(* day, keeps the last view_days days, labels each day, and renders the    *)
(* day the user selects.  Streamlit re-executes the whole script on every  *)
(* widget interaction; one execution is modelled as a chain of steps       *)
(* driven by pc, and Rerun starts the next execution.                      *)
(*                                                                         *)
(* Strings are sequences of one-character strings so that str.lower() and  *)
(* the substring test are computed.  Timestamps are minutes since day 0.   *)
(* Floats that the script compares with thresholds are exact rationals     *)
(* num/den (the float values at the thresholds used here, k/n*100 = 5 or   *)
(* 2 and integer minute means, are exact in IEEE double as well).          *)
(***************************************************************************)
EXTENDS Integers, Sequences, FiniteSets, TLC

VARIABLES
    uploaded_file,  \* the table in the sidebar uploader, or NoFile
    view_days,      \* the "View window (days)" selectbox
    pc,             \* position of the running script
    raw_df,         \* the loaded table
    date_col,       \* name of the detected timestamp column, or None
    df,             \* the cleaned table
    daily,          \* the per-day table
    selected_row,   \* the row picked for the KPI cards, or None
    kpi,            \* the KPI cards rendered, or None
    error           \* what ended the script early: "" if nothing did

vars == <<uploaded_file, view_days, pc, raw_df, date_col, df, daily,
          selected_row, kpi, error>>

(***************************************************************************)
(* Bounds of the model.                                                    *)
(***************************************************************************)
MaxRows == 2        \* rows of an enumerated uploaded table
MaxDay == 2         \* calendar days the enumerated timestamps fall on
DrawPeriod == 1     \* the random draws of one run repeat with this period
Today == 70         \* day number of datetime.today() in the demo branch

(***************************************************************************)
(* Program constants.                                                      *)
(***************************************************************************)
MinutesPerDay == 1440
DemoPeriods == 60
ErrorActionPct == 5
TimeActionMin == 8
ErrorMonitorPct == 2
ViewOptions == <<7, 14, 30, 60, 90>>

None == [k |-> "None"]
NoFile == [k |-> "NoFile"]

(***************************************************************************)
(* Strings.                                                                *)
(***************************************************************************)
UpperCase == <<"A","B","C","D","E","F","G","H","I","J","K","L","M",
               "N","O","P","Q","R","S","T","U","V","W","X","Y","Z">>
LowerCase == <<"a","b","c","d","e","f","g","h","i","j","k","l","m",
               "n","o","p","q","r","s","t","u","v","w","x","y","z">>

LowerChar(c) ==
    IF \E i \in DOMAIN UpperCase : UpperCase[i] = c
    THEN LowerCase[CHOOSE i \in DOMAIN UpperCase : UpperCase[i] = c]
    ELSE c

\* str.lower()
Lower(s) == [i \in DOMAIN s |-> LowerChar(s[i])]

\* sub in s
Contains(s, sub) ==
    \E i \in 1..(Len(s) - Len(sub) + 1) : SubSeq(s, i, i + Len(sub) - 1) = sub

s_date == <<"d","a","t","e">>
s_notes == <<"n","o","t","e","s">>
s_status == <<"s","t","a","t","u","s">>
s_created_date == <<"c","r","e","a","t","e","d","_","d","a","t","e">>
s_resolved_date == <<"r","e","s","o","l","v","e","d","_","d","a","t","e">>
s_Created_Date == <<"C","r","e","a","t","e","d","_","D","A","T","E">>
s_updated_by == <<"u","p","d","a","t","e","d","_","b","y">>
s_processing_time == <<"p","r","o","c","e","s","s","i","n","g","_","t","i","m","e">>
s_is_error == <<"i","s","_","e","r","r","o","r">>

s_open == <<"o","p","e","n">>
s_pending == <<"p","e","n","d","i","n","g">>
s_Open == <<"O","p","e","n">>
s_Opened == <<"O","p","e","n","e","d">>
s_PENDING == <<"P","E","N","D","I","N","G">>
s_Pending == <<"P","e","n","d","i","n","g">>
s_Resolved == <<"R","e","s","o","l","v","e","d">>
s_na == <<"n","/","a">>

(***************************************************************************)
(* Cells.  A raw cell is text, timestamp-formatted text, blank or a        *)
(* number; cleaning turns cells into datetimes, dates, floats and bools.   *)
(***************************************************************************)
Str(s) == [k |-> "str", s |-> s]
TsText(d, hm) == [k |-> "tstext", d |-> d, hm |-> hm]  \* "day d hh:mm"
NaN == [k |-> "nan"]
Num(n) == [k |-> "num", n |-> n]
NaT == [k |-> "NaT"]
Datetime(t) == [k |-> "datetime", t |-> t]
DateObj(d) == [k |-> "date", d |-> d]
Float(num, den) == [k |-> "float", num |-> num, den |-> den]
Bool(b) == [k |-> "bool", b |-> b]

IsNull(c) == c.k \in {"nan", "NaT"}

(***************************************************************************)
(* Tables: columns is the sequence of column names, rows the sequence of   *)
(* rows, each a sequence of cells aligned with columns.                    *)
(***************************************************************************)
\* f as a sequence (TLC then computes each element once)
List(f) == SubSeq(f, 1, Len(f))

Table(cols, rows) == [columns |-> cols, rows |-> List(rows)]

HasCol(t, name) == \E i \in DOMAIN t.columns : t.columns[i] = name

ColIndex(t, name) == CHOOSE i \in DOMAIN t.columns : t.columns[i] = name

\* t[name]
Column(t, name) ==
    LET c == ColIndex(t, name) IN List([r \in DOMAIN t.rows |-> t.rows[r][c]])

\* t[name] = vals
SetColumn(t, name, vals) ==
    IF HasCol(t, name)
    THEN LET c == ColIndex(t, name)
         IN Table(t.columns,
                  [r \in DOMAIN t.rows |-> [t.rows[r] EXCEPT ![c] = vals[r]]])
    ELSE Table(Append(t.columns, name),
               [r \in DOMAIN t.rows |-> Append(t.rows[r], vals[r])])

\* The recursions over rows split the range in halves.
RECURSIVE SelectRowsIn(_, _, _, _)
SelectRowsIn(rows, keep, lo, hi) ==
    IF lo > hi THEN <<>>
    ELSE IF lo = hi THEN (IF keep[lo] THEN <<rows[lo]>> ELSE <<>>)
    ELSE LET mid == (lo + hi) \div 2
         IN SelectRowsIn(rows, keep, lo, mid) \o SelectRowsIn(rows, keep, mid + 1, hi)

\* rows[keep], in the order of rows
SelectRows(rows, keep) == SelectRowsIn(rows, keep, 1, Len(rows))

\* t.dropna(subset=[name])
DropNa(t, name) ==
    LET col == Column(t, name)
    IN Table(t.columns,
             SelectRows(t.rows, [r \in DOMAIN t.rows |-> ~IsNull(col[r])]))

\* pd.to_datetime(cell, errors="coerce")
ToDatetimeCell(c) ==
    CASE c.k = "tstext" -> Datetime(c.d * MinutesPerDay + c.hm)
      [] c.k = "datetime" -> c
      [] c.k = "date" -> Datetime(c.d * MinutesPerDay)
      [] c.k \in {"str", "nan", "NaT"} -> NaT

ToDatetime(col) == [r \in DOMAIN col |-> ToDatetimeCell(col[r])]

\* .dt.date
DtDate(col) ==
    [r \in DOMAIN col |->
        IF col[r].k = "datetime" THEN DateObj(col[r].t \div MinutesPerDay) ELSE NaT]

\* (a - b).dt.total_seconds() / 60
MinutesBetween(a, b) ==
    [r \in DOMAIN a |->
        IF a[r].k = "datetime" /\ b[r].k = "datetime"
        THEN Float(a[r].t - b[r].t, 1) ELSE NaN]

\* A column read from CSV has dtype object when it holds text (or no rows).
IsObjectDtype(col) ==
    col = <<>> \/ \E r \in DOMAIN col : col[r].k \in {"str", "tstext"}

\* .str.lower(): non-text cells of an object column become NaN.
StrLower(col) ==
    [r \in DOMAIN col |->
        CASE col[r].k = "str" -> Str(Lower(col[r].s))
          [] col[r].k = "tstext" -> col[r]
          [] OTHER -> NaN]

\* .isin(values)
IsIn(col, values) ==
    [r \in DOMAIN col |-> Bool(col[r].k = "str" /\ col[r].s \in values)]


(***************************************************************************)
(* Lines 90-99: the timestamp column is the first whose lower-cased name   *)
(* contains "date".                                                        *)
(***************************************************************************)
\* Mutant of IsDateName: the name is tested as written, not lower-cased.
IsDateNameExact(col) == Contains(col, s_date)

IsDateName(col) == Contains(Lower(col), s_date)

\* Mutant of DetectDateColumn: the last matching column wins (no break).
DetectLastDateColumn(cols) ==
    IF \E i \in DOMAIN cols : IsDateName(cols[i])
    THEN cols[CHOOSE i \in DOMAIN cols :
                 /\ IsDateName(cols[i])
                 /\ \A j \in DOMAIN cols : j > i => ~IsDateName(cols[j])]
    ELSE None

DetectDateColumn(cols) ==
    IF \E i \in DOMAIN cols : IsDateName(cols[i])
    THEN cols[CHOOSE i \in DOMAIN cols :
                 /\ IsDateName(cols[i])
                 /\ \A j \in DOMAIN cols : j < i => ~IsDateName(cols[j])]
    ELSE None

(***************************************************************************)
(* Lines 101-121: cleaning.  procPat and errPat are the values the random  *)
(* generators return in this run, row r receiving entry ((r-1) mod         *)
(* DrawPeriod)+1; they are read only on the fallback branches.             *)
(***************************************************************************)
Draw(pat, r) == pat[((r - 1) % DrawPeriod) + 1]

\* lines 101-104
ParseDates(raw, dc) ==
    LET d1 == SetColumn(raw, dc, ToDatetime(Column(raw, dc)))
        d2 == DropNa(d1, dc)
    IN SetColumn(d2, s_date, DtDate(Column(d2, dc)))

\* Mutant of ProcessingTime: the fallback is taken whatever the columns.
ProcessingTimeDrawn(d, dc, procPat) ==
    SetColumn(d, s_processing_time,
              [r \in DOMAIN d.rows |-> Float(Draw(procPat, r), 1)])

\* lines 106-115
ProcessingTime(d, dc, procPat) ==
    IF HasCol(d, s_resolved_date)
    THEN LET d1 == SetColumn(d, s_resolved_date,
                             ToDatetime(Column(d, s_resolved_date)))
         IN SetColumn(d1, s_processing_time,
                      MinutesBetween(Column(d1, s_resolved_date),
                                     ToDatetime(Column(d1, dc))))
    ELSE SetColumn(d, s_processing_time,
                   [r \in DOMAIN d.rows |-> Float(Draw(procPat, r), 1)])

\* line 119 raises AttributeError when the status column holds no text
\* (the dtype is the one the column was loaded with).
StatusRaises(raw, d) ==
    HasCol(d, s_status) /\ ~IsObjectDtype(Column(raw, s_status))

\* lines 117-121
IsError(d, errPat) ==
    IF HasCol(d, s_status)
    THEN SetColumn(d, s_is_error,
                   IsIn(StrLower(Column(d, s_status)), {s_open, s_pending}))
    ELSE SetColumn(d, s_is_error, [r \in DOMAIN d.rows |-> Num(Draw(errPat, r))])

\* lines 88-121
Clean(raw, dc, procPat, errPat) ==
    IsError(ProcessingTime(ParseDates(raw, dc), dc, procPat), errPat)

\* Values of np.random.uniform(5, 10), in minutes.
UniformValues == {5, 9}
\* Values of np.random.choice([0, 1]).
ChoiceValues == {0, 1}

\* What the generators can return in one run.
AllProcPats == [1..DrawPeriod -> UniformValues]
AllErrPats == [1..DrawPeriod -> ChoiceValues]


(***************************************************************************)
(* Lines 126-133: one row per distinct date, ascending, the last view_days *)
(* of them.                                                                *)
(***************************************************************************)
Min(S) == CHOOSE x \in S : \A y \in S : x <= y
Max(S) == CHOOSE x \in S : \A y \in S : x >= y

RECURSIVE SortedIn(_, _, _)
SortedIn(S, lo, hi) ==
    IF S = {} THEN <<>>
    ELSE IF lo = hi THEN <<lo>>
    ELSE LET mid == (lo + hi) \div 2
         IN SortedIn({x \in S : x <= mid}, lo, mid)
                \o SortedIn({x \in S : x > mid}, mid + 1, hi)

\* the group keys in ascending order (groupby sorts them)
SortedSeq(S) == IF S = {} THEN <<>> ELSE SortedIn(S, Min(S), Max(S))

\* the rows of one group
GroupRows(dates, day) == {r \in DOMAIN dates : dates[r] = DateObj(day)}

\* the sum of the floats of col in rows (rows is within lo..hi)
RECURSIVE SumNumIn(_, _, _, _)
SumNumIn(col, rows, lo, hi) ==
    IF rows = {} THEN 0
    ELSE IF lo = hi THEN col[lo].num
    ELSE LET mid == (lo + hi) \div 2
         IN SumNumIn(col, {r \in rows : r <= mid}, lo, mid)
                + SumNumIn(col, {r \in rows : r > mid}, mid + 1, hi)

\* "count": the cells of the group that are not null
CountAgg(col, rows) == Cardinality({r \in rows : ~IsNull(col[r])})

\* Mutant of MeanAgg: a missing value counts as zero in the mean.
MeanAggNaNAsZero(col, rows) ==
    LET have == {r \in rows : col[r].k = "float"}
    IN Float(SumNumIn(col, have, 1, Len(col)), Cardinality(rows))

\* "mean" of a float column: the mean of the values that are not NaN
MeanAgg(col, rows) ==
    LET have == {r \in rows : col[r].k = "float"}
    IN IF have = {} THEN NaN
       ELSE Float(SumNumIn(col, have, 1, Len(col)), Cardinality(have))

Truthy(c) == IF c.k = "bool" THEN c.b ELSE c.n = 1

\* "mean" of the is_error column (bool, or 0/1)
MeanFlag(col, rows) ==
    Float(Cardinality({r \in rows : Truthy(col[r])}), Cardinality(rows))

\* x * 100
Times100(x) == IF x.k = "float" THEN Float(x.num * 100, x.den) ELSE x

\* the group keys: groupby leaves null keys out
DateKeys(d) ==
    {c.d : c \in {x \in {Column(d, s_date)[r] : r \in DOMAIN d.rows} : x.k = "date"}}

\* Mutant of GroupByDate: the tickets are counted on processing_time.
GroupByDateCountTimes(d) ==
    LET keys == SortedSeq(DateKeys(d))
        dates == Column(d, s_date)
        times == Column(d, s_processing_time)
        flags == Column(d, s_is_error)
    IN List([i \in DOMAIN keys |->
           LET rows == GroupRows(dates, keys[i])
           IN [date |-> keys[i],
               daily_tickets |-> CountAgg(times, rows),
               avg_processing_time |-> MeanAgg(times, rows),
               error_rate |-> Times100(MeanFlag(flags, rows))]])

\* lines 126-132
GroupByDate(d) ==
    LET keys == SortedSeq(DateKeys(d))
        dates == Column(d, s_date)
        times == Column(d, s_processing_time)
        flags == Column(d, s_is_error)
    IN List([i \in DOMAIN keys |->
           LET rows == GroupRows(dates, keys[i])
           IN [date |-> keys[i],
               daily_tickets |-> CountAgg(dates, rows),
               avg_processing_time |-> MeanAgg(times, rows),
               error_rate |-> Times100(MeanFlag(flags, rows))]])

RECURSIVE SortRowsIn(_, _, _)
SortRowsIn(rows, lo, hi) ==
    IF rows = <<>> \/ lo = hi THEN rows
    ELSE LET mid == (lo + hi) \div 2
         IN SortRowsIn(SelectRows(rows, [i \in DOMAIN rows |-> rows[i].date <= mid]),
                       lo, mid)
            \o SortRowsIn(SelectRows(rows, [i \in DOMAIN rows |-> rows[i].date > mid]),
                          mid + 1, hi)

\* .sort_values("date"): ascending, rows of equal date in their order
SortValues(rows) ==
    IF rows = <<>> THEN rows
    ELSE LET days == {rows[i].date : i \in DOMAIN rows}
         IN SortRowsIn(rows, Min(days), Max(days))

\* Mutant of TailRows: the first n rows are kept (head).
HeadRows(rows, n) ==
    IF Len(rows) <= n THEN rows ELSE SubSeq(rows, 1, n)

\* .tail(n)
TailRows(rows, n) ==
    IF Len(rows) <= n THEN rows ELSE SubSeq(rows, Len(rows) - n + 1, Len(rows))

\* lines 126-133
Aggregate(d, n) == TailRows(SortValues(GroupByDate(d)), n)

(***************************************************************************)
(* Lines 138-145: the status of a day.  A comparison with NaN is false.    *)
(***************************************************************************)
Gt(x, c) == x.k = "float" /\ x.num > c * x.den

\* Mutant of classify: the thresholds are inclusive.
classifyInclusive(row) ==
    IF (row.error_rate.k = "float"
            /\ row.error_rate.num >= ErrorActionPct * row.error_rate.den)
       \/ (row.avg_processing_time.k = "float"
            /\ row.avg_processing_time.num
                 >= TimeActionMin * row.avg_processing_time.den)
    THEN "Action Required"
    ELSE IF row.error_rate.k = "float"
              /\ row.error_rate.num >= ErrorMonitorPct * row.error_rate.den
         THEN "Monitoring"
         ELSE "On Track"

classify(row) ==
    IF Gt(row.error_rate, ErrorActionPct)
       \/ Gt(row.avg_processing_time, TimeActionMin)
    THEN "Action Required"
    ELSE IF Gt(row.error_rate, ErrorMonitorPct)
         THEN "Monitoring"
         ELSE "On Track"

\* line 145
WithStatus(rows) ==
    List([i \in DOMAIN rows |->
            [date |-> rows[i].date,
             daily_tickets |-> rows[i].daily_tickets,
             avg_processing_time |-> rows[i].avg_processing_time,
             error_rate |-> rows[i].error_rate,
             status |-> classify(rows[i])]])

\* .astype(str) of a date
DateStr(day) == [k |-> "datestr", iso |-> day]


(***************************************************************************)
(* The tables the model runs the script on.                                *)
(***************************************************************************)
SeqsUpTo(R, n) == UNION {[1..m -> R] : m \in 0..n}

Clock == 600    \* 10:00, the time of day of the enumerated timestamps

PrimaryCells == {TsText(d, Clock) : d \in 1..MaxDay} \cup {Str(s_na)}

\* p and a resolution off minutes later
After(p, off) == TsText(p.d, p.hm + off)

\* resolutions 7 and 9 minutes after the creation, on each day
FullCols == <<s_created_date, s_resolved_date, s_status>>
TimingRows ==
    {<<p, After(p, off), Str(s_Resolved)>> :
        p \in {TsText(d, Clock) : d \in 1..MaxDay}, off \in {7, 9}}
    \cup {<<Str(s_na), TsText(1, Clock + 7), Str(s_Resolved)>>}

\* resolutions that are later, earlier or blank, on open and resolved tickets
MissingRows ==
    {<<TsText(1, Clock), r, Str(st)>> :
        r \in {TsText(1, Clock + 7), TsText(1, Clock - 6), NaN},
        st \in {s_Open, s_Resolved}}
    \cup {<<Str(s_na), TsText(1, Clock + 7), Str(s_Open)>>}

\* the first "date" column is resolved_date; every kind of status cell
SwappedCols == <<s_resolved_date, s_created_date, s_status>>
SwappedRows ==
    {<<TsText(1, Clock + 7), TsText(1, Clock), st>> :
        st \in {Str(s_Open), Str(s_PENDING), Str(s_Resolved), Str(s_Opened),
                NaN, Num(1)}}
    \cup {<<NaN, TsText(1, Clock), Str(s_Pending)>>}

\* the timestamp column is named exactly "date"
PlainCols == <<s_date, s_resolved_date, s_status>>
PlainRows ==
    {<<p, r, Str(s_Resolved)>> :
        p \in {TsText(1, Clock), TsText(1, 0)}, r \in {TsText(1, Clock + 7), NaN}}
    \cup {<<Str(s_na), TsText(1, Clock + 7), Str(s_Resolved)>>}

NoDateCols == <<s_notes, s_status>>
NoDateRows == {<<Str(s_na), st>> : st \in {Str(s_Open), Str(s_Resolved)}}

\* mixed-case name after a non-matching column; no status column
MixedCols == <<s_notes, s_Created_Date, s_resolved_date>>
MixedRows ==
    {<<Str(s_na), p, TsText(1, Clock + 7)>> : p \in PrimaryCells}

\* no resolved_date column
NoResolvedCols == <<s_created_date, s_status>>
NoResolvedRows ==
    {<<p, st>> : p \in {TsText(1, Clock), Str(s_na)},
                 st \in {Str(s_Open), Str(s_Resolved)}}

\* "updated_by" contains "date" and comes first
UpdatedCols == <<s_updated_by, s_created_date>>
UpdatedRows == {<<Str(s_na), TsText(1, Clock)>>}

\* neither resolved_date nor status
BareCols == <<s_Created_Date>>
BareRows == {<<TsText(1, Clock)>>, <<Str(s_na)>>}

\* read_csv leaves no number in a column that holds text
WellTyped(t) ==
    \A i \in DOMAIN t.columns :
        ~(\E r \in DOMAIN t.rows : t.rows[r][i].k = "num"
          /\ \E q \in DOMAIN t.rows : t.rows[q][i].k \in {"str", "tstext"})

SmallTables ==
    {t \in UNION {{Table(f[1], rows) : rows \in SeqsUpTo(f[2], MaxRows)} :
                  f \in {<<FullCols, TimingRows>>, <<FullCols, MissingRows>>,
                         <<SwappedCols, SwappedRows>>,
                         <<PlainCols, PlainRows>>, <<NoDateCols, NoDateRows>>,
                         <<MixedCols, MixedRows>>,
                         <<NoResolvedCols, NoResolvedRows>>,
                         <<UpdatedCols, UpdatedRows>>, <<BareCols, BareRows>>}}
       : WellTyped(t)}

\* one ticket a day for n consecutive days
SeriesLens == {8, 15}
SeriesTables ==
    {Table(NoResolvedCols,
           [i \in 1..n |-> <<TsText(i, Clock), Str(s_Resolved)>>]) : n \in SeriesLens}
    \cup
    {Table(FullCols,
           [i \in 1..n |-> <<TsText(i, Clock), TsText(i, Clock + (i % 3) + 6),
                             Str(IF i % 4 = 0 THEN s_Open ELSE s_Resolved)>>])
       : n \in SeriesLens}

\* n tickets on one day, one of them open: error rates 1/n
RatioSizes == {19, 20, 21, 49, 50, 51}
RatioTables ==
    {Table(FullCols,
           [i \in 1..n |-> <<TsText(1, Clock), TsText(1, Clock + 7),
                             Str(IF i = 1 THEN s_Open ELSE s_Resolved)>>])
       : n \in RatioSizes}

Uploads == SmallTables \cup SeriesTables \cup RatioTables

(***************************************************************************)
(* Lines 76-83: the demo table, DemoPeriods days ending today.             *)
(***************************************************************************)
DelayValues == {30, 299}                       \* np.random.randint(30, 300)
StatusChoices == {s_Resolved, s_Open, s_Pending}

DemoTable(delayPat, statusPat) ==
    Table(FullCols,
          [i \in 1..DemoPeriods |->
              LET t == (Today - DemoPeriods + i) * MinutesPerDay + Clock
              IN <<Datetime(t), Datetime(t + Draw(delayPat, i)),
                   Str(Draw(statusPat, i))>>])


(***************************************************************************)
(* The script.                                                             *)
(***************************************************************************)
NoTable == Table(<<>>, <<>>)

Init ==
    /\ uploaded_file \in Uploads \cup {NoFile}
    /\ view_days = ViewOptions[1]
    /\ pc = "load"
    /\ raw_df = NoTable
    /\ date_col = None
    /\ df = NoTable
    /\ daily = <<>>
    /\ selected_row = None
    /\ kpi = None
    /\ error = ""

\* lines 74-75
LoadUploaded ==
    /\ pc = "load"
    /\ uploaded_file # NoFile
    /\ raw_df' = uploaded_file
    /\ pc' = "detect"
    /\ UNCHANGED <<uploaded_file, view_days, date_col, df, daily,
                   selected_row, kpi, error>>

\* lines 76-83
LoadDemo ==
    /\ pc = "load"
    /\ uploaded_file = NoFile
    /\ \E delayPat \in [1..DrawPeriod -> DelayValues],
          statusPat \in [1..DrawPeriod -> StatusChoices] :
          raw_df' = DemoTable(delayPat, statusPat)
    /\ pc' = "detect"
    /\ UNCHANGED <<uploaded_file, view_days, date_col, df, daily,
                   selected_row, kpi, error>>

\* lines 90-99, a date column found
DetectFound ==
    /\ pc = "detect"
    /\ DetectDateColumn(raw_df.columns) # None
    /\ date_col' = DetectDateColumn(raw_df.columns)
    /\ pc' = "clean"
    /\ UNCHANGED <<uploaded_file, view_days, raw_df, df, daily,
                   selected_row, kpi, error>>

\* lines 97-99: st.error and st.stop
DetectMissing ==
    /\ pc = "detect"
    /\ DetectDateColumn(raw_df.columns) = None
    /\ date_col' = None
    /\ error' = "No date column found in uploaded file."
    /\ pc' = "stopped"
    /\ UNCHANGED <<uploaded_file, view_days, raw_df, df, daily,
                   selected_row, kpi>>

\* lines 101-121
CleanRows ==
    /\ pc = "clean"
    /\ ~StatusRaises(raw_df, ParseDates(raw_df, date_col))
    /\ \E procPat \in AllProcPats, errPat \in AllErrPats :
          df' = Clean(raw_df, date_col, procPat, errPat)
    /\ pc' = "aggregate"
    /\ UNCHANGED <<uploaded_file, view_days, raw_df, date_col, daily,
                   selected_row, kpi, error>>

\* line 119 on a status column without text: the exception ends the script
CleanRaises ==
    /\ pc = "clean"
    /\ StatusRaises(raw_df, ParseDates(raw_df, date_col))
    /\ error' = "AttributeError"
    /\ pc' = "crashed"
    /\ UNCHANGED <<uploaded_file, view_days, raw_df, date_col, df, daily,
                   selected_row, kpi>>

\* lines 126-133
AggregateDays ==
    /\ pc = "aggregate"
    /\ daily' = Aggregate(df, view_days)
    /\ pc' = "classify"
    /\ UNCHANGED <<uploaded_file, view_days, raw_df, date_col, df,
                   selected_row, kpi, error>>

\* lines 138-145
ClassifyDays ==
    /\ pc = "classify"
    /\ daily' = WithStatus(daily)
    /\ pc' = "select"
    /\ UNCHANGED <<uploaded_file, view_days, raw_df, date_col, df,
                   selected_row, kpi, error>>

\* line 145 on an empty table: apply returns a frame in some pandas
\* versions, and assigning it to one column raises
ClassifyEmptyRaises ==
    /\ pc = "classify"
    /\ daily = <<>>
    /\ error' = "ValueError"
    /\ pc' = "crashed"
    /\ UNCHANGED <<uploaded_file, view_days, raw_df, date_col, df, daily,
                   selected_row, kpi>>

\* lines 150-155: the user picks one of the dates shown
SelectDate ==
    /\ pc = "select"
    /\ daily # <<>>
    /\ \E i \in DOMAIN daily :
          LET selected_date == DateStr(daily[i].date)
              match == SelectRows(daily,
                          [j \in DOMAIN daily |->
                              DateStr(daily[j].date) = selected_date])
          IN selected_row' = match[1]
    /\ pc' = "render"
    /\ UNCHANGED <<uploaded_file, view_days, raw_df, date_col, df, daily,
                   kpi, error>>

\* lines 150-155 with no date to show: the selectbox returns None, no row
\* matches and .iloc[0] raises
SelectRaises ==
    /\ pc = "select"
    /\ daily = <<>>
    /\ error' = "IndexError"
    /\ pc' = "crashed"
    /\ UNCHANGED <<uploaded_file, view_days, raw_df, date_col, df, daily,
                   selected_row, kpi>>

\* lines 160-165
RenderKpi ==
    /\ pc = "render"
    /\ kpi' = [daily_tickets |-> selected_row.daily_tickets,
               avg_processing_time |-> selected_row.avg_processing_time,
               error_rate |-> selected_row.error_rate,
               status |-> selected_row.status]
    /\ pc' = "done"
    /\ UNCHANGED <<uploaded_file, view_days, raw_df, date_col, df, daily,
                   selected_row, error>>

\* a widget interaction re-executes the script from the top (lines 48-52)
Rerun ==
    /\ pc \in {"done", "stopped", "crashed"}
    /\ \E i \in DOMAIN ViewOptions : view_days' = ViewOptions[i]
    /\ pc' = "load"
    /\ raw_df' = NoTable
    /\ date_col' = None
    /\ df' = NoTable
    /\ daily' = <<>>
    /\ selected_row' = None
    /\ kpi' = None
    /\ error' = ""
    /\ UNCHANGED uploaded_file

Next ==
    \/ LoadUploaded
    \/ LoadDemo
    \/ DetectFound
    \/ DetectMissing
    \/ CleanRows
    \/ CleanRaises
    \/ AggregateDays
    \/ ClassifyDays
    \/ ClassifyEmptyRaises
    \/ SelectDate
    \/ SelectRaises
    \/ RenderKpi
    \/ Rerun

Spec == Init /\ [][Next]_vars


(***************************************************************************)
(* Vocabulary of the properties, stated on the raw table.                  *)
(***************************************************************************)
\* the name contains "date" in some letter case
HasDateSubstring(name) ==
    \E i \in 1..(Len(name) - 3) :
        /\ LowerChar(name[i]) = "d"
        /\ LowerChar(name[i + 1]) = "a"
        /\ LowerChar(name[i + 2]) = "t"
        /\ LowerChar(name[i + 3]) = "e"

RawIndex(name) == CHOOSE i \in DOMAIN raw_df.columns : raw_df.columns[i] = name
RawCell(r, name) == raw_df.rows[r][RawIndex(name)]

\* the cell reads as a timestamp
Parseable(c) == c.k \in {"tstext", "datetime"}
\* the timestamp it reads as, in minutes, and its calendar day
MinuteOf(c) == IF c.k = "tstext" THEN c.d * MinutesPerDay + c.hm ELSE c.t
DayOf(c) == MinuteOf(c) \div MinutesPerDay

\* the raw rows whose primary timestamp parses, and those of one day
KeptRows == {r \in DOMAIN raw_df.rows : Parseable(RawCell(r, date_col))}
RowsOfDay(day) == {r \in KeptRows : DayOf(RawCell(r, date_col)) = day}

RECURSIVE SumTickets(_, _, _)
SumTickets(rows, lo, hi) ==
    IF lo > hi THEN 0
    ELSE IF lo = hi THEN rows[lo].daily_tickets
    ELSE LET mid == (lo + hi) \div 2
         IN SumTickets(rows, lo, mid) + SumTickets(rows, mid + 1, hi)

\* daily is written by AggregateDays and ClassifyDays and by no later step:
\* the table is read where it has just been aggregated and just been labelled
Aggregated == pc = "classify"
Classified == pc = "select"

\* the per-day table of a run on raw_df under the draws pp, ep, before the
\* window is cut, and the table that run shows for window n
AllDays(pp, ep) == SortValues(GroupByDate(Clean(raw_df, date_col, pp, ep)))
Shown(all, n) == WithStatus(TailRows(all, n))

Keys(rows) ==
    [i \in DOMAIN rows |->
        [date |-> rows[i].date, daily_tickets |-> rows[i].daily_tickets]]

IsSuffixOf(a, b) ==
    /\ Len(a) <= Len(b)
    /\ \A i \in DOMAIN a : a[i] = b[Len(b) - Len(a) + i]

LargerWindows == {n \in {ViewOptions[i] : i \in DOMAIN ViewOptions} : n > view_days}

(***************************************************************************)
(* C1.  The script stops with the missing-date-column error if and only if *)
(* no column name of the raw table contains "date" in any letter case;     *)
(* when it stops, nothing was cleaned, aggregated, selected or rendered.   *)
(***************************************************************************)
C1_MissingColumnIff ==
    pc \notin {"load", "detect"} =>
        /\ (pc = "stopped") <=>
               ~(\E i \in DOMAIN raw_df.columns : HasDateSubstring(raw_df.columns[i]))
        /\ pc = "stopped" =>
               /\ error = "No date column found in uploaded file."
               /\ date_col = None /\ df = NoTable /\ daily = <<>>
               /\ selected_row = None /\ kpi = None
        /\ pc # "stopped" =>
               error # "No date column found in uploaded file."

C1_Witness ==
    /\ pc = "stopped"
    /\ raw_df.columns = NoDateCols
    /\ Len(raw_df.rows) = MaxRows

(***************************************************************************)
(* C2.  The timestamp column is the first column, in the table's column    *)
(* order, whose name contains "date" in any letter case.                   *)
(***************************************************************************)
C2_FirstDateColumn ==
    pc \notin {"load", "detect", "stopped"} =>
        \E i \in DOMAIN raw_df.columns :
            /\ raw_df.columns[i] = date_col
            /\ HasDateSubstring(raw_df.columns[i])
            /\ \A j \in 1..(i - 1) : ~HasDateSubstring(raw_df.columns[j])

C2_Witness ==
    /\ pc = "clean"
    /\ raw_df.columns = MixedCols
    /\ date_col = s_Created_Date

(***************************************************************************)
(* C3.  Each day's status is Action Required iff error_rate > 5 or         *)
(* avg_processing_time > 8, otherwise Monitoring iff error_rate > 2,       *)
(* otherwise On Track, with strict comparisons.                            *)
(***************************************************************************)
Over(x, c) == x.k = "float" /\ x.num > c * x.den

C3_StatusThresholds ==
    Classified =>
        \A i \in DOMAIN daily :
            LET e == daily[i].error_rate
                a == daily[i].avg_processing_time
            IN /\ daily[i].status = "Action Required" <=> (Over(e, 5) \/ Over(a, 8))
               /\ daily[i].status = "Monitoring" <=>
                      (~Over(e, 5) /\ ~Over(a, 8) /\ Over(e, 2))
               /\ daily[i].status = "On Track" <=>
                      (~Over(e, 5) /\ ~Over(a, 8) /\ ~Over(e, 2))

\* a day at exactly 5 percent errors, shown as Monitoring
C3_Witness ==
    /\ Classified
    /\ \E i \in DOMAIN daily :
          /\ daily[i].error_rate.num = 5 * daily[i].error_rate.den
          /\ daily[i].status = "Monitoring"


(***************************************************************************)
(* C4.  Monotonic truncation.  The table shown for a window is strictly    *)
(* ascending by date and has min(window, distinct dates) rows.  Against    *)
(* the table any run on the same raw table shows for a larger window, its  *)
(* dates and ticket counts are exactly the last rows of that table; when   *)
(* the raw table has both a resolved_date and a status column, so are its  *)
(* metric values and status labels.                                        *)
(***************************************************************************)
DistinctDays == {DayOf(RawCell(r, date_col)) : r \in KeptRows}

Ascending(rows) ==
    \A i \in DOMAIN rows : \A j \in DOMAIN rows : i < j => rows[i].date < rows[j].date

C4_Shape ==
    /\ Ascending(daily)
    /\ Len(daily) = IF Cardinality(DistinctDays) < view_days
                    THEN Cardinality(DistinctDays) ELSE view_days
    /\ Cardinality(DistinctDays) < view_days =>
           {daily[i].date : i \in DOMAIN daily} = DistinctDays

C4_TruncationOfKeys ==
    Classified =>
        /\ C4_Shape
        /\ \A pp \in AllProcPats : \A ep \in AllErrPats :
              LET all == AllDays(pp, ep)
              IN \A n2 \in LargerWindows :
                    LET wider == Shown(all, n2)
                    IN /\ IsSuffixOf(Keys(daily), Keys(wider))
                       /\ Len(daily) = IF Len(wider) < view_days
                                       THEN Len(wider) ELSE view_days
                       /\ (HasCol(raw_df, s_resolved_date) /\ HasCol(raw_df, s_status))
                              => IsSuffixOf(daily, wider)

\* a table without resolved_date, cut from 15 days to the last 7
C4_Witness ==
    /\ Classified
    /\ ~HasCol(raw_df, s_resolved_date)
    /\ Cardinality(DistinctDays) = 15
    /\ Len(daily) = 7
    /\ daily[1].date = 9

\* C4 as claimed: every field of the table for the smaller window equals
\* the last rows of the table any run shows for a larger window.
C4_AsClaimed ==
    Classified =>
        /\ C4_Shape
        /\ \A pp \in AllProcPats : \A ep \in AllErrPats :
              LET all == AllDays(pp, ep)
              IN \A n2 \in LargerWindows : IsSuffixOf(daily, Shown(all, n2))

(***************************************************************************)
(* C5.  Rows whose primary timestamp does not parse are left out: each     *)
(* day's ticket count is the number of raw rows whose primary timestamp    *)
(* parses to that day (so it is at least 1), the counts of all days before *)
(* the window is cut add up to the number of raw rows with a parseable     *)
(* primary timestamp, and the table is the one obtained from the raw table *)
(* with the unparseable rows removed beforehand.                           *)
(***************************************************************************)
RawWithoutUnparseable ==
    Table(raw_df.columns,
          SelectRows(raw_df.rows, [r \in DOMAIN raw_df.rows |-> r \in KeptRows]))

Unclassified(rows) ==
    [i \in DOMAIN rows |->
        [date |-> rows[i].date,
         daily_tickets |-> rows[i].daily_tickets,
         avg_processing_time |-> rows[i].avg_processing_time,
         error_rate |-> rows[i].error_rate]]

C5_CountsParseableRows ==
    Aggregated =>
        /\ \A i \in DOMAIN daily :
              /\ daily[i].daily_tickets = Cardinality(RowsOfDay(daily[i].date))
              /\ daily[i].daily_tickets >= 1
        /\ LET all == GroupByDate(df)
           IN SumTickets(all, 1, Len(all)) = Cardinality(KeptRows)
        /\ \E pp \in AllProcPats : \E ep \in AllErrPats :
              Unclassified(daily) =
                  Aggregate(Clean(RawWithoutUnparseable, date_col, pp, ep), view_days)

\* a day with one counted row beside a row that was left out
C5_Witness ==
    /\ Aggregated
    /\ Len(raw_df.rows) = 2
    /\ Cardinality(KeptRows) = 1
    /\ Len(daily) = 1
    /\ daily[1].daily_tickets = 1


(***************************************************************************)
(* C6.  When a timestamp column is found but no row has a parseable        *)
(* primary timestamp, the script ends with the named NoDataAvailable       *)
(* condition and renders no KPI.                                           *)
(***************************************************************************)
C6_NoDataAvailable ==
    (/\ pc \in {"done", "stopped", "crashed"}
     /\ date_col # None
     /\ df # NoTable
     /\ df.rows = <<>>)
        => (error = "NoDataAvailable" /\ kpi = None)

(***************************************************************************)
(* C7.  With a status column, cleaning never raises, and a kept row is an  *)
(* error exactly when its lower-cased status is "open" or "pending".       *)
(***************************************************************************)
IsOpenOrPending(c) == c.k = "str" /\ Lower(c.s) \in {s_open, s_pending}

KeptRawRows ==
    SelectRows(raw_df.rows, [r \in DOMAIN raw_df.rows |-> r \in KeptRows])

C7_StatusNeverRaises ==
    (pc \in {"aggregate", "crashed"} /\ date_col # None /\ HasCol(raw_df, s_status))
        => /\ ~(pc = "crashed" /\ error = "AttributeError")
           /\ pc = "aggregate" =>
                  Column(df, s_is_error) =
                      [i \in DOMAIN KeptRawRows |->
                          Bool(IsOpenOrPending(KeptRawRows[i][RawIndex(s_status)]))]

(***************************************************************************)
(* C8.  Idempotence.  Whatever the random fallbacks draw, a run on the     *)
(* same raw table with the same window shows the same dates and ticket     *)
(* counts; with both a resolved_date and a status column it shows the same *)
(* table in every field.                                                   *)
(***************************************************************************)
C8_Idempotent ==
    Classified =>
        \A pp \in AllProcPats : \A ep \in AllErrPats :
            LET again == Shown(AllDays(pp, ep), view_days)
            IN /\ Keys(again) = Keys(daily)
               /\ (HasCol(raw_df, s_resolved_date) /\ HasCol(raw_df, s_status))
                      => again = daily

\* two tickets on one day and no resolved_date or status column: another
\* run can show other metrics for that day
C8_Witness ==
    /\ Classified
    /\ raw_df.columns = BareCols
    /\ Len(daily) = 1
    /\ daily[1].daily_tickets = 2
    /\ \E pp \in AllProcPats : \E ep \in AllErrPats :
          Shown(AllDays(pp, ep), view_days) # daily

(***************************************************************************)
(* C9.  A day's avg_processing_time is defined exactly when the table has  *)
(* no resolved_date column or one of the day's rows has a parseable        *)
(* resolved_date; it is NaN on a day whose resolved_date values are all    *)
(* unparseable.                                                            *)
(***************************************************************************)
C9_DefinedIffResolved ==
    Aggregated =>
        \A i \in DOMAIN daily :
            daily[i].avg_processing_time.k = "float" <=>
                \/ ~HasCol(raw_df, s_resolved_date)
                \/ \E r \in RowsOfDay(daily[i].date) :
                      Parseable(RawCell(r, s_resolved_date))

\* a day of two tickets, neither with a resolved_date: the average is NaN
C9_Witness ==
    /\ Aggregated
    /\ \E i \in DOMAIN daily :
          /\ daily[i].daily_tickets = 2
          /\ daily[i].avg_processing_time = NaN

\* C9 as claimed: every row of the per-day table has a defined average.
C9_AsClaimed ==
    Aggregated =>
        \A i \in DOMAIN daily : daily[i].avg_processing_time.k = "float"

(***************************************************************************)
(* C10.  With a resolved_date column, a row whose resolved_date does not   *)
(* parse still counts as a ticket and toward the error rate, and the       *)
(* day's avg_processing_time is the mean of (resolved - primary), in       *)
(* minutes and unclamped, over the day's rows with a parseable             *)
(* resolved_date.                                                          *)
(***************************************************************************)
RECURSIVE SumElapsed(_, _, _)
SumElapsed(rows, lo, hi) ==
    IF rows = {} THEN 0
    ELSE IF lo = hi
         THEN MinuteOf(RawCell(lo, s_resolved_date)) - MinuteOf(RawCell(lo, date_col))
    ELSE LET mid == (lo + hi) \div 2
         IN SumElapsed({r \in rows : r <= mid}, lo, mid)
                + SumElapsed({r \in rows : r > mid}, mid + 1, hi)

C10_MeanOfElapsed ==
    (Aggregated /\ HasCol(raw_df, s_resolved_date)) =>
        \A i \in DOMAIN daily :
            LET rows == RowsOfDay(daily[i].date)
                timed == {r \in rows : Parseable(RawCell(r, s_resolved_date))}
            IN /\ daily[i].daily_tickets = Cardinality(rows)
               /\ HasCol(raw_df, s_status) =>
                      daily[i].error_rate =
                          Float(100 * Cardinality({r \in rows :
                                    IsOpenOrPending(RawCell(r, s_status))}),
                                Cardinality(rows))
               /\ timed # {} =>
                      daily[i].avg_processing_time =
                          Float(SumElapsed(timed, 1, Len(raw_df.rows)), Cardinality(timed))

=============================================================================
